---- MODULE Spec2Model ----
(***************************************************************************)
(* A model of chess/structures.py (pieces, Board) and chess/solvers.py     *)
(* (RecursiveBruteForceSolver).                                            *)
(*                                                                         *)
(* Python objects live in a heap: Board objects, the ndarray each holds in *)
(* `state` and the set each holds in `pieces` are separate objects reached *)
(* by reference, so that sharing and copying are what the code makes them. *)
(* Generators are modelled by their suspended frames (a stack of           *)
(* _solutions_recursive frames with a program counter each).               *)
(***************************************************************************)
EXTENDS Integers, Sequences, FiniteSets, TLC

(***************************************************************************)
(* Bounds of the model.                                                    *)
(***************************************************************************)
\* general inputs: boards with rows * cols <= MaxArea
MaxArea == 3
\* general inputs: at most MaxPieces pieces in all
MaxPieces == 3

(***************************************************************************)
(* Pieces: structures.py                                                   *)
(***************************************************************************)
KingPiece == 2
QueenPiece == 3
BishopPiece == 4
RookPiece == 5
KnightPiece == 6

PIECES_LIST == <<KingPiece, QueenPiece, BishopPiece, RookPiece, KnightPiece>>

PieceTypes == {PIECES_LIST[i] : i \in DOMAIN PIECES_LIST}

\* Python's None, as returned in (None, None) by Board.next_position
None == -1

KING_QUEEN_MOVES ==
    << <<-1, -1>>, <<-1, 0>>, <<-1, 1>>, <<0, -1>>,
       <<0, 1>>, <<1, -1>>, <<1, 0>>, <<1, 1>> >>

BISHOP_MOVES == << <<-1, -1>>, <<-1, 1>>, <<1, -1>>, <<1, 1>> >>

ROOK_MOVES == << <<-1, 0>>, <<0, -1>>, <<0, 1>>, <<1, 0>> >>

KNIGHT_MOVES ==
    << <<-2, -1>>, <<-2, 1>>, <<-1, -2>>, <<-1, 2>>,
       <<1, -2>>, <<1, 2>>, <<2, -1>>, <<2, 1>> >>

Range(f) == {f[i] : i \in DOMAIN f}

\* the bounds test of positions_step and positions_run
InBoard(rows, cols, row, col) ==
    /\ 0 <= row /\ row < rows
    /\ 0 <= col /\ col < cols

\* AbstractPiece.positions_step: the squares it yields, in order
RECURSIVE positions_step(_, _, _, _, _)
positions_step(rows, cols, row, col, moves) ==
    IF moves = <<>> THEN <<>>
    ELSE LET drow == Head(moves)[1]
             dcol == Head(moves)[2]
             rest == positions_step(rows, cols, row, col, Tail(moves))
         IN  IF InBoard(rows, cols, row + drow, col + dcol)
             THEN <<<<row + drow, col + dcol>>>> \o rest
             ELSE rest

\* the while loop of positions_run for one move, from (crow, ccol)
RECURSIVE RunWalk(_, _, _, _, _, _)
\* the loop leaving after its first square
RunWalk_once(rows, cols, crow, ccol, drow, dcol) ==
    IF InBoard(rows, cols, crow + drow, ccol + dcol)
    THEN <<<<crow + drow, ccol + dcol>>>>
    ELSE <<>>

RunWalk(rows, cols, crow, ccol, drow, dcol) ==
    IF InBoard(rows, cols, crow + drow, ccol + dcol)
    THEN <<<<crow + drow, ccol + dcol>>>>
         \o RunWalk(rows, cols, crow + drow, ccol + dcol, drow, dcol)
    ELSE <<>>

\* the second for loop of positions_run
RECURSIVE RunAll(_, _, _, _, _)
RunAll(rows, cols, row, col, moves) ==
    IF moves = <<>> THEN <<>>
    ELSE RunWalk(rows, cols, row, col, Head(moves)[1], Head(moves)[2])
         \o RunAll(rows, cols, row, col, Tail(moves))

\* AbstractPiece.positions_run: the first ring, then every run
positions_run(rows, cols, row, col, moves) ==
    positions_step(rows, cols, row, col, moves)
    \o RunAll(rows, cols, row, col, moves)

\* <Piece>.positions(board, row, col), board given by its shape
positions(piece, rows, cols, row, col) ==
    CASE piece = KingPiece   -> positions_step(rows, cols, row, col, KING_QUEEN_MOVES)
      [] piece = QueenPiece  -> positions_run(rows, cols, row, col, KING_QUEEN_MOVES)
      [] piece = BishopPiece -> positions_run(rows, cols, row, col, BISHOP_MOVES)
      [] piece = RookPiece   -> positions_run(rows, cols, row, col, ROOK_MOVES)
      [] piece = KnightPiece -> positions_step(rows, cols, row, col, KNIGHT_MOVES)

(***************************************************************************)
(* 16-bit placement record of Board.add_piece                              *)
(***************************************************************************)
\* Python's | on non-negative integers
RECURSIVE BitOr(_, _)
BitOr(a, b) ==
    IF a = 0 THEN b
    ELSE IF b = 0 THEN a
    ELSE (IF a % 2 = 1 \/ b % 2 = 1 THEN 1 ELSE 0) + 2 * BitOr(a \div 2, b \div 2)

\* the record with the row shifted by 9 bits instead of 10
piece_hash_short(piece, row, col) ==
    BitOr(BitOr(piece - 2, col * 16), row * 512) % 65536

\* piece_hash = (piece.identifier() - 2) | (col << 4) | (row << 10), as uint16
piece_hash(piece, row, col) ==
    BitOr(BitOr(piece - 2, col * 16), row * 1024) % 65536

\* hash(frozenset(pieces)): a function of the set's value alone (not of the
\* occupancy matrix, the cursor or the board's shape).  Python's 64-bit set
\* hash is modelled by the set itself, that is without collisions.
Signature(pieces) == pieces

(***************************************************************************)
(* The heap.  H.boards: Board objects (__slots__ state, _next_row,         *)
(* _next_col, pieces; state and pieces are references), H.ndarrays: the    *)
(* numpy arrays (shape and data), H.sets: the Python sets of placement     *)
(* records.                                                                *)
(***************************************************************************)
EmptyHeap == [boards |-> <<>>, ndarrays |-> <<>>, sets |-> <<>>]

\* a fresh object identity: the smallest one not in use
NewId(objs) ==
    CHOOSE i \in 1..(Cardinality(DOMAIN objs) + 1) :
        /\ i \notin DOMAIN objs
        /\ \A j \in 1..(i - 1) : j \in DOMAIN objs

\* reference counting: only the objects reachable from the boards in `roots` stay
Collect(H, roots) ==
    LET live == roots \cap DOMAIN H.boards
    IN  [boards   |-> [b \in live |-> H.boards[b]],
         ndarrays |-> [a \in {H.boards[b].state : b \in live} |-> H.ndarrays[a]],
         sets     |-> [s \in {H.boards[b].pieces : b \in live} |-> H.sets[s]]]

\* numpy.zeros((rows, cols), dtype=uint8)
zeros(rows, cols) ==
    [shape |-> <<rows, cols>>,
     data  |-> [r \in 0..(rows - 1) |-> [c \in 0..(cols - 1) |-> 0]]]

\* the ndarray and the set behind a Board reference
StateOf(H, b) == H.ndarrays[H.boards[b].state]
PiecesOf(H, b) == H.sets[H.boards[b].pieces]
\* Board.rows, Board.cols
BoardRows(H, b) == StateOf(H, b).shape[1]
BoardCols(H, b) == StateOf(H, b).shape[2]

\* Board.new(rows, cols): a new array, and Board.__init__ with pieces=None,
\* which makes a new empty set and the cursor (0, 0)
Board_new(H, rows, cols) ==
    LET a == NewId(H.ndarrays)
        s == NewId(H.sets)
        b == NewId(H.boards)
    IN  [heap |-> [boards   |-> H.boards @@ (b :> [state |-> a, next_row |-> 0,
                                                   next_col |-> 0, pieces |-> s]),
                   ndarrays |-> H.ndarrays @@ (a :> zeros(rows, cols)),
                   sets     |-> H.sets @@ (s :> {})],
         ret  |-> b]

\* Board.copy with the array and the set shared instead of copied
copy_shallow(H, b) ==
    LET n == NewId(H.boards)
    IN  [heap |-> [H EXCEPT !.boards = H.boards @@ (n :> H.boards[b])],
         ret  |-> n]

\* Board.copy: Board(state=self.state.copy(), next_position=(...), pieces=self.pieces.copy())
copy(H, b) ==
    LET a == NewId(H.ndarrays)
        s == NewId(H.sets)
        n == NewId(H.boards)
    IN  [heap |-> [boards   |-> H.boards @@ (n :> [state |-> a,
                                                   next_row |-> H.boards[b].next_row,
                                                   next_col |-> H.boards[b].next_col,
                                                   pieces |-> s]),
                   ndarrays |-> H.ndarrays @@ (a :> StateOf(H, b)),
                   sets     |-> H.sets @@ (s :> PiecesOf(H, b))],
         ret  |-> n]

\* the matrix after lines 301-303: the piece's identifier on (row, col), then 1
\* on every square of `att`
Marked(data, piece, row, col, att) ==
    LET attacked == Range(att)
    IN  [r \in DOMAIN data |->
            [c \in DOMAIN data[r] |->
                IF <<r, c>> \in attacked THEN 1
                ELSE IF r = row /\ c = col THEN piece
                ELSE data[r][c]]]

\* add_piece without its first test
TargetTaken_unchecked(data, row, col) == FALSE

\* the first test of add_piece (line 294): the target square is not empty
TargetTaken(data, row, col) == data[row][col] # 0

\* add_piece without its loop over the attacked squares
AttacksPiece_unchecked(data, att) == FALSE

\* the loop of add_piece testing != 0 instead of > 1: attack marks count too
AttacksPiece_marks(data, att) == \E i \in DOMAIN att : data[att[i][1]][att[i][2]] # 0

\* the loop of add_piece (lines 297-299): a square of `att` holds a piece
AttacksPiece(data, att) == \E i \in DOMAIN att : data[att[i][1]][att[i][2]] > 1

\* Board.add_piece writing the piece on its square before the loop over the
\* attacked squares
add_piece_eager(H, b, piece, row, col) ==
    LET B    == H.boards[b]
        A    == H.ndarrays[B.state]
        att  == positions(piece, A.shape[1], A.shape[2], row, col)
        H0   == [H EXCEPT !.ndarrays[B.state].data[row][col] = piece]
    IN  IF TargetTaken(A.data, row, col) THEN [heap |-> H, ret |-> FALSE]
        ELSE IF AttacksPiece(A.data, att) THEN [heap |-> H0, ret |-> FALSE]
        ELSE LET H1 == [H EXCEPT !.ndarrays[B.state].data =
                                     Marked(A.data, piece, row, col, att)]
             IN  [heap |-> [H1 EXCEPT !.sets[B.pieces] =
                                     @ \cup {piece_hash(piece, row, col)}],
                  ret  |-> TRUE]

\* Board.add_piece(piece, row, col)
add_piece(H, b, piece, row, col) ==
    LET B    == H.boards[b]
        A    == H.ndarrays[B.state]
        att  == positions(piece, A.shape[1], A.shape[2], row, col)
    IN  IF TargetTaken(A.data, row, col) THEN [heap |-> H, ret |-> FALSE]
        ELSE IF AttacksPiece(A.data, att) THEN [heap |-> H, ret |-> FALSE]
        ELSE LET H1 == [H EXCEPT !.ndarrays[B.state].data =
                                     Marked(A.data, piece, row, col, att)]
             IN  [heap |-> [H1 EXCEPT !.sets[B.pieces] =
                                     @ \cup {piece_hash(piece, row, col)}],
                  ret  |-> TRUE]

\* the while loop of next_position from cursor (nr, nc): the cursor it ends on
\* and whether that square is empty
RECURSIVE ScanCursor(_, _, _, _, _)
\* the same loop without line 338 (_next_col = 0 on a new row)
ScanCursor_samecol(data, rows, cols, nr, nc) ==
    IF data[nr][nc] # 0
    THEN IF nc < cols - 1 THEN ScanCursor(data, rows, cols, nr, nc + 1)
         ELSE IF nr < rows - 1 THEN ScanCursor(data, rows, cols, nr + 1, nc)
         ELSE <<nr, nc, FALSE>>
    ELSE <<nr, nc, TRUE>>

ScanCursor(data, rows, cols, nr, nc) ==
    IF data[nr][nc] # 0
    THEN IF nc < cols - 1 THEN ScanCursor(data, rows, cols, nr, nc + 1)
         ELSE IF nr < rows - 1 THEN ScanCursor(data, rows, cols, nr + 1, 0)
         ELSE <<nr, nc, FALSE>>
    ELSE <<nr, nc, TRUE>>

\* Board.next_position(): moves the cursor, returns (row, col) or (None, None)
next_position(H, b) ==
    LET A == StateOf(H, b)
        e == ScanCursor(A.data, A.shape[1], A.shape[2],
                        H.boards[b].next_row, H.boards[b].next_col)
    IN  [heap |-> [H EXCEPT !.boards[b].next_row = e[1], !.boards[b].next_col = e[2]],
         ret  |-> IF e[3] THEN <<e[1], e[2]>> ELSE <<None, None>>]

\* the squares the loops of available_positions visit from (row, col), in order
RECURSIVE FreeFrom(_, _, _, _, _)
FreeFrom(data, rows, cols, row, col) ==
    IF row >= rows THEN <<>>
    ELSE IF col >= cols THEN FreeFrom(data, rows, cols, row + 1, 0)
    ELSE (IF data[row][col] = 0 THEN <<<<row, col>>>> ELSE <<>>)
         \o FreeFrom(data, rows, cols, row, col + 1)

\* Board.available_positions(), drained: it calls next_position (which moves the
\* cursor) and yields the empty squares from there on
available_positions(H, b) ==
    LET np == next_position(H, b)
        A  == StateOf(np.heap, b)
    IN  [heap |-> np.heap,
         ret  |-> IF np.ret[1] # None
                  THEN FreeFrom(A.data, A.shape[1], A.shape[2], np.ret[1], np.ret[2])
                  ELSE <<>>]

(***************************************************************************)
(* State                                                                   *)
(***************************************************************************)
VARIABLES
    heap,           \* the Python objects
    input,          \* per solver object: rows, cols, pieces (its constructor's arguments)
    status,         \* per solver: "none", "created" (solutions() called, nothing
                    \* pulled yet), "running", "done" (exhausted), "closed" (dropped),
                    \* or the name of the exception that ended the generator
    stack,          \* per solver: the frames of _solutions_recursive of its generator
    emitted,        \* per solver: the boards its current generator has yielded
    cur,            \* the solver whose generator is executing; 0: the caller is
    completed_set,  \* RecursiveBruteForceSolver.completed_set (class attribute)
    solutions_set,  \* RecursiveBruteForceSolver.solutions_set (class attribute)
    results,        \* per solver: what each of its drained generators yielded
    nruns,          \* per solver: the generators made so far
    held,           \* the boards a direct user of the Board class holds (b1, b2)
    last            \* the last call that user made on a board, and what it returned
                    \* (of add_piece: ok; of next_position: pos; of
                    \* available_positions, drained: list; of
                    \* piece.positions(board, row, col): piece, pos = (row,
                    \* col) and list, drained)

vars == <<heap, input, status, stack, emitted, cur, completed_set, solutions_set,
          results, nruns, held, last>>

Solvers == {1, 2}

NoInput == [rows |-> 0, cols |-> 0, pieces |-> <<>>]

\* no call made on a held board yet
NoCall == [op |-> "none", ok |-> FALSE, pos |-> <<None, None>>, list |-> <<>>,
           piece |-> 0]

(***************************************************************************)
(* RecursiveBruteForceSolver                                               *)
(***************************************************************************)
\* the cap of line 140: 1 < len(board.pieces) <= 5
MemoCap == 5

\* range(count) of one (piece, count) pair: count appends
RECURSIVE Repeat(_, _)
Repeat(piece, count) ==
    IF count <= 0 THEN <<>> ELSE <<piece>> \o Repeat(piece, count - 1)

\* available_pieces of _solutions (lines 111-114)
RECURSIVE Expand(_)
Expand(pieces) ==
    IF pieces = <<>> THEN <<>>
    ELSE Repeat(Head(pieces)[1], Head(pieces)[2]) \o Expand(Tail(pieces))

\* next_pieces without the del
NextPieces_kept(pieces, index) == pieces

\* next_pieces = pieces.copy(); del next_pieces[index]   (index from 1 here)
NextPieces(pieces, index) ==
    SubSeq(pieces, 1, index - 1) \o SubSeq(pieces, index + 1, Len(pieces))

\* the test of line 127, for the piece at `index` (from 1 here)
SameAsPrevious(pieces, index) ==
    index > 1 /\ pieces[index] = pieces[index - 1]

\* the two loop heads (lines 126-129) of a frame whose inner loop needs its next
\* square: the frame at its next candidate (pc "for_pos"), or past both loops
\* (pc "memo")
RECURSIVE NextCandidate(_, _)
NextCandidate(H, f) ==
    IF f.positions # <<>> THEN [heap |-> H, frame |-> [f EXCEPT !.pc = "for_pos"]]
    ELSE LET i == f.index + 1
         IN  IF i > Len(f.pieces)
             THEN [heap |-> H, frame |-> [f EXCEPT !.index = i, !.pc = "memo"]]
             ELSE IF SameAsPrevious(f.pieces, i)
             THEN NextCandidate(H, [f EXCEPT !.index = i])
             ELSE LET ap == available_positions(H, f.board)
                  IN  NextCandidate(ap.heap,
                                    [f EXCEPT !.index = i, !.positions = ap.ret])

\* a call of _solutions_recursive(board, pieces) up to its first candidate:
\* line 124, and when a square is free line 125 and the loop heads
EnterFrame(H, board, pieces) ==
    LET f  == [board |-> board, pieces |-> pieces, next_board |-> 0,
               index |-> 0, positions |-> <<>>, pc |-> "memo"]
        np == next_position(H, board)
    IN  IF np.ret[1] # None
        THEN LET cp == copy(np.heap, board)
             IN  NextCandidate(cp.heap, [f EXCEPT !.next_board = cp.ret])
        ELSE [heap |-> np.heap, frame |-> f]

\* the loop going on without line 138: next_board stays the board just filled
Rebind_kept(H, f) == NextCandidate(H, f)

\* line 138, next_board = board.copy(), and on to the next candidate
Rebind(H, f) ==
    LET cp == copy(H, f.board)
    IN  NextCandidate(cp.heap, [f EXCEPT !.next_board = cp.ret])

\* _solutions without lines 116-117
FreshSet_kept(old) == old

\* what a class-level set is bound to by lines 116-117: set()
FreshSet(old) == {}

Top(s) == stack[s][Len(stack[s])]
SetTop(s, f) == [stack[s] EXCEPT ![Len(stack[s])] = f]

BoardsOfStack(stk) ==
    UNION {{stk[i].board, stk[i].next_board} : i \in DOMAIN stk}

\* every board some variable refers to
Roots(stks, ems, hd) ==
    UNION {BoardsOfStack(stks[s]) \cup Range(ems[s]) : s \in Solvers} \cup Range(hd)

\* the new heap, stack and yielded boards of solver s
Commit(s, H, stk, em) ==
    /\ stack' = [stack EXCEPT ![s] = stk]
    /\ emitted' = [emitted EXCEPT ![s] = em]
    /\ heap' = Collect(H, Roots(stack', emitted', held))

\* numpy.zeros((rows, cols)) of Board.new raises ValueError ("negative
\* dimensions are not allowed") on a negative dimension; a dimension 0 gives an
\* empty array
ZerosRaises(rows, cols) == rows < 0 \/ cols < 0

\* self.state[self._next_row][self._next_col] of next_position (line 333) raises
\* IndexError when the cursor is not inside the array
CursorOutside(H, b) ==
    \/ H.boards[b].next_row >= BoardRows(H, b)
    \/ H.boards[b].next_col >= BoardCols(H, b)

\* the exception the first next() on solutions() ends with, "" without one:
\* from Board.new (line 119), or from board.next_position() in the first line
\* of _solutions_recursive (line 124)
StartRaises(rows, cols) ==
    IF ZerosRaises(rows, cols) THEN "ValueError"
    ELSE LET nb == Board_new(EmptyHeap, rows, cols)
         IN  IF CursorOutside(nb.heap, nb.ret) THEN "IndexError" ELSE ""

\* the first next() on solutions(): _solutions up to the first candidate of the
\* first call of _solutions_recursive, or up to the exception that ends the
\* generator
Start(s) ==
    /\ cur = 0
    /\ status[s] = "created"
    /\ completed_set' = FreshSet(completed_set)
    /\ solutions_set' = FreshSet(solutions_set)
    /\ IF StartRaises(input[s].rows, input[s].cols) = ""
       THEN /\ LET nb == Board_new(heap, input[s].rows, input[s].cols)
                   e  == EnterFrame(nb.heap, nb.ret, Expand(input[s].pieces))
               IN  Commit(s, e.heap, <<e.frame>>, emitted[s])
            /\ status' = [status EXCEPT ![s] = "running"]
            /\ cur' = s
       ELSE /\ Commit(s, heap, <<>>, emitted[s])
            /\ status' = [status EXCEPT
                              ![s] = StartRaises(input[s].rows, input[s].cols)]
            /\ cur' = 0
    /\ UNCHANGED <<input, results, nruns, held, last>>

AtCandidate(s) ==
    /\ cur = s
    /\ stack[s] # <<>>
    /\ Top(s).pc = "for_pos"

\* the piece and the square the top frame of s tries next
CandidatePiece(s) == Top(s).pieces[Top(s).index]
CandidateSquare(s) == Head(Top(s).positions)

\* add_piece on next_board for that candidate (line 130): the heap after it and
\* its result
TryAdd(s) ==
    add_piece(heap, Top(s).next_board, CandidatePiece(s),
              CandidateSquare(s)[1], CandidateSquare(s)[2])

\* hash(frozenset(next_board.pieces)) after that add_piece
TrySignature(s) == Signature(PiecesOf(TryAdd(s).heap, Top(s).next_board))

\* line 131 without its test of solutions_set
LastAndNew_unchecked(s) == Len(Top(s).pieces) = 1

\* the condition of line 131
LastAndNew(s) == Len(Top(s).pieces) = 1 /\ TrySignature(s) \notin solutions_set

\* the inner loop's generator advanced by two squares instead of one
PastCandidate_skip(s) ==
    [Top(s) EXCEPT !.positions = IF Len(@) > 1 THEN Tail(Tail(@)) ELSE <<>>]

\* the top frame with the inner loop's generator advanced past the candidate
PastCandidate(s) == [Top(s) EXCEPT !.positions = Tail(Top(s).positions)]

\* line 130 false: the next square is tried on the same next_board
TryFail(s) ==
    /\ AtCandidate(s)
    /\ ~TryAdd(s).ret
    /\ LET n == NextCandidate(TryAdd(s).heap, PastCandidate(s))
       IN  Commit(s, n.heap, SetTop(s, n.frame), emitted[s])
    /\ UNCHANGED <<input, status, cur, completed_set, solutions_set, results,
                   nruns, held, last>>

\* lines 131-133: the last piece is placed and the signature is new: it is
\* recorded and next_board is yielded
TryYield(s) ==
    /\ AtCandidate(s)
    /\ TryAdd(s).ret
    /\ LastAndNew(s)
    /\ solutions_set' = solutions_set \cup {TrySignature(s)}
    /\ Commit(s, TryAdd(s).heap,
              SetTop(s, [PastCandidate(s) EXCEPT !.pc = "yielded"]),
              Append(emitted[s], Top(s).next_board))
    /\ cur' = 0
    /\ UNCHANGED <<input, status, completed_set, results, nruns, held, last>>

\* lines 134-137: the signature is not in completed_set: recurse on next_board
\* with the piece removed
TryDescend(s) ==
    /\ AtCandidate(s)
    /\ TryAdd(s).ret
    /\ ~LastAndNew(s)
    /\ TrySignature(s) \notin completed_set
    /\ LET e == EnterFrame(TryAdd(s).heap, Top(s).next_board,
                           NextPieces(Top(s).pieces, Top(s).index))
       IN  Commit(s, e.heap,
                  Append(SetTop(s, [PastCandidate(s) EXCEPT !.pc = "called"]),
                         e.frame),
                  emitted[s])
    /\ UNCHANGED <<input, status, cur, completed_set, solutions_set, results,
                   nruns, held, last>>

\* neither branch taken (the signature is in completed_set): line 138
TryPruned(s) ==
    /\ AtCandidate(s)
    /\ TryAdd(s).ret
    /\ ~LastAndNew(s)
    /\ TrySignature(s) \in completed_set
    /\ LET n == Rebind(TryAdd(s).heap, PastCandidate(s))
       IN  Commit(s, n.heap, SetTop(s, n.frame), emitted[s])
    /\ UNCHANGED <<input, status, cur, completed_set, solutions_set, results,
                   nruns, held, last>>

\* next() on a generator suspended at line 133: line 138 and on
Resume(s) ==
    /\ cur = 0
    /\ status[s] = "running"
    /\ Top(s).pc = "yielded"
    /\ LET n == Rebind(heap, Top(s))
       IN  Commit(s, n.heap, SetTop(s, n.frame), emitted[s])
    /\ cur' = s
    /\ UNCHANGED <<input, status, completed_set, solutions_set, results, nruns,
                   held, last>>

\* the placement sets of the boards yielded by the current generator of s
\* line 140 without its upper bound
Memoizes_uncapped(P) == 1 < Cardinality(P)

\* the test of line 140 on board.pieces
Memoizes(P) == 1 < Cardinality(P) /\ Cardinality(P) <= MemoCap

EmittedSets(s) == {PiecesOf(heap, emitted[s][i]) : i \in DOMAIN emitted[s]}

\* a call of _solutions_recursive ends: lines 140-141, then the caller's
\* line 138, or the end of the generator (line 76 of solutions)
Return(s) ==
    /\ cur = s
    /\ stack[s] # <<>>
    /\ Top(s).pc = "memo"
    /\ LET P    == PiecesOf(heap, Top(s).board)
           rest == SubSeq(stack[s], 1, Len(stack[s]) - 1)
       IN  /\ completed_set' =
                  IF Memoizes(P)
                  THEN completed_set \cup {Signature(P)}
                  ELSE completed_set
           /\ IF rest = <<>>
              THEN /\ Commit(s, heap, <<>>, emitted[s])
                   /\ status' = [status EXCEPT ![s] = "done"]
                   /\ results' = [results EXCEPT ![s] = Append(@, EmittedSets(s))]
                   /\ cur' = 0
              ELSE /\ LET n == Rebind(heap, rest[Len(rest)])
                      IN  Commit(s, n.heap,
                                 [rest EXCEPT ![Len(rest)] = n.frame], emitted[s])
                   /\ UNCHANGED <<status, results, cur>>
    /\ UNCHANGED <<input, solutions_set, nruns, held, last>>

\* the caller drops a generator it has not drained: GeneratorExit unwinds the
\* frames, no line of them runs
Abandon(s) ==
    /\ cur = 0
    /\ status[s] \in {"created", "running"}
    /\ Commit(s, heap, <<>>, emitted[s])
    /\ status' = [status EXCEPT ![s] = "closed"]
    /\ UNCHANGED <<input, cur, completed_set, solutions_set, results, nruns,
                   held, last>>

(***************************************************************************)
(* Inputs                                                                  *)
(***************************************************************************)
RECURSIVE Total(_)
Total(pieces) ==
    IF pieces = <<>> THEN 0 ELSE Head(pieces)[2] + Total(Tail(pieces))

\* the lists of at most n (piece, count) pairs, counts from 1, of at most n pieces
PieceLists(n) ==
    {p \in UNION {[1..k -> PieceTypes \X (1..n)] : k \in 0..n} : Total(p) <= n}

\* lists with a zero count
ZeroCountLists ==
    {p \in UNION {[1..k -> PieceTypes \X {0, 1}] : k \in 1..2} :
        \E i \in DOMAIN p : p[i][2] = 0}

\* the boards of at most `area` squares (InputsFor adds the 2 x 2 board)
Shapes(area) == {sh \in (1..area) \X (1..area) : sh[1] * sh[2] <= area}

InputsFor(area, n) ==
    {[rows |-> sh[1], cols |-> sh[2], pieces |-> p] :
        sh \in Shapes(area) \cup {<<2, 2>>}, p \in PieceLists(n) \cup ZeroCountLists}

\* the scenarios of the specification, and the challenge's own example
ScenarioInputs ==
    {[rows |-> 3, cols |-> 3, pieces |-> <<<<KingPiece, 1>>>>],
     [rows |-> 3, cols |-> 3, pieces |-> <<<<RookPiece, 1>>, <<BishopPiece, 1>>>>],
     [rows |-> 4, cols |-> 4, pieces |-> <<<<KingPiece, 2>>>>],
     [rows |-> 1, cols |-> 1, pieces |-> <<<<QueenPiece, 1>>>>],
     [rows |-> 3, cols |-> 3, pieces |-> <<<<KingPiece, 2>>, <<RookPiece, 1>>>>]}

Inputs == InputsFor(MaxArea, MaxPieces) \cup ScenarioInputs

(***************************************************************************)
(* One solver object, one generator: solutions() pulled by a caller that   *)
(* may stop early.                                                         *)
(***************************************************************************)
InitWith(in1, in2) ==
    /\ heap = EmptyHeap
    /\ input = <<in1, in2>>
    /\ status = <<"created", IF in2 = NoInput THEN "none" ELSE "created">>
    /\ stack = <<<<>>, <<>>>>
    /\ emitted = <<<<>>, <<>>>>
    /\ cur = 0
    /\ completed_set = {}
    /\ solutions_set = {}
    /\ results = <<<<>>, <<>>>>
    /\ nruns = <<1, IF in2 = NoInput THEN 0 ELSE 1>>
    /\ held = <<>>
    /\ last = NoCall

Init == \E in1 \in Inputs : InitWith(in1, NoInput)

Search(s) ==
    \/ Start(s)
    \/ TryFail(s)
    \/ TryYield(s)
    \/ TryDescend(s)
    \/ TryPruned(s)
    \/ Resume(s)
    \/ Return(s)

Next == \E s \in Solvers : Search(s) \/ Abandon(s)

Spec == Init /\ [][Next]_vars

\* the caller keeps pulling: no generator is dropped
PullNext == \E s \in Solvers : Search(s)

(***************************************************************************)
(* One solver object whose solutions() is called again after a generator   *)
(* was drained or dropped.                                                 *)
(***************************************************************************)
\* at most MaxRuns generators are made
MaxRuns == 3

\* solutions() is called again (line 68): a new generator, not yet pulled; the
\* caller lets go of the boards of the generator before
NewRun(s) ==
    /\ cur = 0
    /\ status[s] \in {"done", "closed"}
    /\ nruns[s] < MaxRuns
    /\ Commit(s, heap, <<>>, <<>>)
    /\ status' = [status EXCEPT ![s] = "created"]
    /\ nruns' = [nruns EXCEPT ![s] = @ + 1]
    /\ UNCHANGED <<input, cur, completed_set, solutions_set, results, held, last>>

\* the inputs on boards of one or two squares
RerunInputs == {in \in Inputs : in.rows * in.cols <= 2}

InitRerun == \E in1 \in RerunInputs : InitWith(in1, NoInput)

NextRerun == \E s \in Solvers : Search(s) \/ Abandon(s) \/ NewRun(s)

SpecRerun == InitRerun /\ [][NextRerun]_vars

(***************************************************************************)
(* Two solver objects whose generators are pulled in turn by one caller.   *)
(***************************************************************************)
InterleavedInputs ==
    {[rows |-> 1, cols |-> 2, pieces |-> <<<<KnightPiece, 1>>, <<BishopPiece, 1>>>>],
     [rows |-> 1, cols |-> 2, pieces |-> <<<<KnightPiece, 2>>>>],
     [rows |-> 1, cols |-> 3, pieces |-> <<<<KingPiece, 1>>, <<KnightPiece, 1>>>>]}

InitInterleaved == \E in1, in2 \in InterleavedInputs : InitWith(in1, in2)

SpecInterleaved == InitInterleaved /\ [][PullNext]_vars

\* runs on the memo's cap: MemoCap + 2 Bishops on a row of MemoCap + 2 squares
\* (a Bishop attacks nothing on one row), with the small inputs above
MemoInputs ==
    InterleavedInputs
    \cup {[rows |-> 1, cols |-> MemoCap + 2,
           pieces |-> <<<<BishopPiece, MemoCap + 2>>>>]}

InitMemo == \E in1 \in MemoInputs : InitWith(in1, NoInput)

SpecMemo == InitMemo /\ [][Next]_vars

\* a solver made with any dimensions: Solver.__init__ stores what it is given
DimensionInputs ==
    RerunInputs
    \cup {[rows |-> sh[1], cols |-> sh[2], pieces |-> ps] :
             sh \in {x \in (-1..1) \X (-1..1) : x[1] <= 0 \/ x[2] <= 0},
             ps \in {<<>>, <<<<KingPiece, 1>>>>}}

InitDimensions == \E in1 \in DimensionInputs : InitWith(in1, NoInput)

SpecDimensions == InitDimensions /\ [][Next]_vars

\* a step of some generator is possible: the guards of Start, Try..., Resume
\* and Return (the four Try actions cover every result of line 130)
CanPull ==
    \E s \in Solvers :
        \/ cur = 0 /\ status[s] = "created"
        \/ AtCandidate(s)
        \/ cur = 0 /\ status[s] = "running" /\ Top(s).pc = "yielded"
        \/ cur = s /\ stack[s] # <<>> /\ Top(s).pc = "memo"

\* weak fairness of PullNext, with ENABLED <<PullNext>>_vars written out as CanPull
PullFairness == []<>(~CanPull) \/ []<><<PullNext>>_vars

FairSpec == Init /\ [][PullNext]_vars /\ PullFairness

(***************************************************************************)
(* The Board class used directly: a caller makes a board with Board.new    *)
(* and calls add_piece, next_position, available_positions and copy on it  *)
(* in any order.  held[1] is the board the caller works on, held[2] the    *)
(* other board of the last copy, which the caller keeps and leaves alone.  *)
(***************************************************************************)
\* what a Board object holds: the matrix, the placed set and the cursor
BoardView(H, b) ==
    [state  |-> StateOf(H, b).data,
     pieces |-> PiecesOf(H, b),
     cursor |-> <<H.boards[b].next_row, H.boards[b].next_col>>]

\* the squares of board b
SquaresOf(H, b) == (0..(BoardRows(H, b) - 1)) \X (0..(BoardCols(H, b) - 1))

BoardShapes == Shapes(MaxArea) \cup {<<2, 2>>}

InitBoard ==
    \E sh \in BoardShapes :
        LET nb == Board_new(EmptyHeap, sh[1], sh[2])
        IN  /\ heap = nb.heap
            /\ held = <<nb.ret, 0>>
            /\ last = NoCall
            /\ input = <<NoInput, NoInput>>
            /\ status = <<"none", "none">>
            /\ stack = <<<<>>, <<>>>>
            /\ emitted = <<<<>>, <<>>>>
            /\ cur = 0
            /\ completed_set = {}
            /\ solutions_set = {}
            /\ results = <<<<>>, <<>>>>
            /\ nruns = <<0, 0>>

\* the solver's variables: no solver runs here
NoSolver ==
    UNCHANGED <<input, status, stack, emitted, cur, completed_set, solutions_set,
                results, nruns>>

\* held[1].add_piece(piece, row, col), (row, col) inside the board
CallAddPiece ==
    \E piece \in PieceTypes, sq \in SquaresOf(heap, held[1]) :
        LET r == add_piece(heap, held[1], piece, sq[1], sq[2])
        IN  /\ heap' = r.heap
            /\ last' = [NoCall EXCEPT !.op = "add_piece", !.ok = r.ret]
            /\ UNCHANGED held
            /\ NoSolver

\* held[1].next_position()
CallNextPosition ==
    LET r == next_position(heap, held[1])
    IN  /\ heap' = r.heap
        /\ last' = [NoCall EXCEPT !.op = "next_position", !.pos = r.ret]
        /\ UNCHANGED held
        /\ NoSolver

\* list(held[1].available_positions())
CallAvailablePositions ==
    LET r == available_positions(heap, held[1])
    IN  /\ heap' = r.heap
        /\ last' = [NoCall EXCEPT !.op = "available_positions", !.list = r.ret]
        /\ UNCHANGED held
        /\ NoSolver

\* b2 = b1.copy(): the caller goes on with the copy and keeps the original, or
\* goes on with the original and keeps the copy; the board kept before is
\* released once the new one is bound
CallCopy ==
    LET r == copy(heap, held[1])
    IN  /\ held' \in {<<r.ret, held[1]>>, <<held[1], r.ret>>}
        /\ heap' = Collect(r.heap, Range(held'))
        /\ last' = [NoCall EXCEPT !.op = "copy"]
        /\ NoSolver

NextBoard ==
    CallAddPiece \/ CallNextPosition \/ CallAvailablePositions \/ CallCopy

SpecBoard == InitBoard /\ [][NextBoard]_vars

\* one board and add_piece calls only
SpecAddPiece == InitBoard /\ [][CallAddPiece]_vars

(***************************************************************************)
(* The attacked squares: piece.positions(board, row, col) called for every *)
(* piece type and square of boards of up to MaxSide rows and columns.      *)
(***************************************************************************)
MaxSide == 4

InitPositions ==
    \E rows, cols \in 1..MaxSide :
        LET nb == Board_new(EmptyHeap, rows, cols)
        IN  /\ heap = nb.heap
            /\ held = <<nb.ret, 0>>
            /\ last = NoCall
            /\ input = <<NoInput, NoInput>>
            /\ status = <<"none", "none">>
            /\ stack = <<<<>>, <<>>>>
            /\ emitted = <<<<>>, <<>>>>
            /\ cur = 0
            /\ completed_set = {}
            /\ solutions_set = {}
            /\ results = <<<<>>, <<>>>>
            /\ nruns = <<0, 0>>

\* list(piece.positions(held[1], row, col)), (row, col) inside the board
CallPositions ==
    \E piece \in PieceTypes, sq \in SquaresOf(heap, held[1]) :
        /\ last' = [NoCall EXCEPT
                        !.op = "positions", !.piece = piece, !.pos = sq,
                        !.list = positions(piece, BoardRows(heap, held[1]),
                                           BoardCols(heap, held[1]), sq[1], sq[2])]
        /\ UNCHANGED <<heap, held>>
        /\ NoSolver

SpecPositions == InitPositions /\ [][CallPositions]_vars

(***************************************************************************)
(* The placement record: lines 305-306 of add_piece computed for every     *)
(* piece type, row and column that fit the 6 bits the record gives them.   *)
(***************************************************************************)
\* the bits of a row and of a column in the record (docstring of add_piece)
CoordBits == 6

Coords == 0..(2 ^ CoordBits - 1)

\* a placement to make the record of
InitRecord ==
    /\ \E piece \in PieceTypes, row, col \in Coords :
           last = [NoCall EXCEPT !.op = "placement", !.piece = piece,
                                 !.pos = <<row, col>>]
    /\ heap = EmptyHeap
    /\ held = <<>>
    /\ input = <<NoInput, NoInput>>
    /\ status = <<"none", "none">>
    /\ stack = <<<<>>, <<>>>>
    /\ emitted = <<<<>>, <<>>>>
    /\ cur = 0
    /\ completed_set = {}
    /\ solutions_set = {}
    /\ results = <<<<>>, <<>>>>
    /\ nruns = <<0, 0>>

\* lines 305-306: the record of the placement, in last.list
MakeRecord ==
    /\ last.op = "placement"
    /\ last' = [last EXCEPT
                    !.op = "record",
                    !.list = <<piece_hash(last.piece, last.pos[1], last.pos[2])>>]
    /\ UNCHANGED <<heap, held>>
    /\ NoSolver

SpecRecord == InitRecord /\ [][MakeRecord]_vars

(***************************************************************************)
(* Reference definitions, independent of the code's move tables            *)
(***************************************************************************)
Abs(x) == IF x < 0 THEN -x ELSE x

\* a piece of type `piece` on (r1, c1) attacks the square (r2, c2)
RefAttacks(piece, r1, c1, r2, c2) ==
    LET dr == Abs(r2 - r1)
        dc == Abs(c2 - c1)
    IN  /\ <<r1, c1>> # <<r2, c2>>
        /\ CASE piece = KingPiece   -> dr <= 1 /\ dc <= 1
             [] piece = QueenPiece  -> dr = 0 \/ dc = 0 \/ dr = dc
             [] piece = BishopPiece -> dr = dc
             [] piece = RookPiece   -> dr = 0 \/ dc = 0
             [] piece = KnightPiece -> {dr, dc} = {1, 2}

\* a set of placements <<piece, row, col>>: one piece a square, none attacked
NonAttacking(P) ==
    \A p \in P : \A q \in P \ {p} :
        /\ <<p[2], p[3]>> # <<q[2], q[3]>>
        /\ ~RefAttacks(p[1], p[2], p[3], q[2], q[3])

\* the pieces of type `piece` an input list asks for
RECURSIVE Requested(_, _)
Requested(pieces, piece) ==
    IF pieces = <<>> THEN 0
    ELSE (IF Head(pieces)[1] = piece /\ Head(pieces)[2] > 0 THEN Head(pieces)[2] ELSE 0)
         + Requested(Tail(pieces), piece)

RequestedTotal(pieces) ==
    Requested(pieces, KingPiece) + Requested(pieces, QueenPiece)
    + Requested(pieces, BishopPiece) + Requested(pieces, RookPiece)
    + Requested(pieces, KnightPiece)

\* the requested pieces as a list of types, kings first
RequestedList(pieces) ==
    Repeat(KingPiece, Requested(pieces, KingPiece))
    \o Repeat(QueenPiece, Requested(pieces, QueenPiece))
    \o Repeat(BishopPiece, Requested(pieces, BishopPiece))
    \o Repeat(RookPiece, Requested(pieces, RookPiece))
    \o Repeat(KnightPiece, Requested(pieces, KnightPiece))

Squares(rows, cols) == (0..(rows - 1)) \X (0..(cols - 1))

\* every way to put the pieces of the list `types` on distinct squares
RECURSIVE AllPlacements(_, _, _)
AllPlacements(rows, cols, types) ==
    IF types = <<>> THEN {{}}
    ELSE UNION {{P \cup {<<Head(types), sq[1], sq[2]>>} :
                    sq \in {x \in Squares(rows, cols) :
                               \A p \in P : <<p[2], p[3]>> # x}} :
                P \in AllPlacements(rows, cols, Tail(types))}

\* brute force: all placements of the requested pieces, those without attack kept
BruteForce(in) ==
    {P \in AllPlacements(in.rows, in.cols, RequestedList(in.pieces)) : NonAttacking(P)}

\* the placement a 16-bit record stands for: <<piece, row, col>>
Decode(h) == <<(h % 16) + 2, h \div 1024, (h \div 16) % 64>>

\* the placements of a board, from its set of records
PlacementsOf(H, b) == {Decode(h) : h \in PiecesOf(H, b)}

\* the placement sets yielded by the current generator of s
EmittedPlacements(s) == {PlacementsOf(heap, emitted[s][i]) : i \in DOMAIN emitted[s]}

\* the squares of a board that hold a piece code
PieceSquares(H, b) ==
    {sq \in Squares(BoardRows(H, b), BoardCols(H, b)) :
        StateOf(H, b).data[sq[1]][sq[2]] > 1}

(***************************************************************************)
(* Claims on one generator                                                 *)
(***************************************************************************)
\* a yielded board: the requested number of pieces of each type, inside the
\* board, one a square, none on a square another attacks, and the occupancy
\* matrix holds exactly these pieces
ValidSolution(s, b) ==
    LET P == PlacementsOf(heap, b)
    IN  /\ BoardRows(heap, b) = input[s].rows
        /\ BoardCols(heap, b) = input[s].cols
        /\ \A t \in PieceTypes :
               Cardinality({p \in P : p[1] = t}) = Requested(input[s].pieces, t)
        /\ Cardinality(P) = RequestedTotal(input[s].pieces)
        /\ \A p \in P : InBoard(input[s].rows, input[s].cols, p[2], p[3])
        /\ NonAttacking(P)
        /\ \A p \in P : StateOf(heap, b).data[p[2]][p[3]] = p[1]
        /\ Cardinality(PieceSquares(heap, b)) = Cardinality(P)

\* C1: every board a generator has yielded holds exactly the requested number of
\* pieces of each type, all inside the board, no two on one square, and none on
\* a square that another placed piece attacks.
C1_EmittedValid ==
    \A s \in Solvers : \A i \in DOMAIN emitted[s] : ValidSolution(s, emitted[s][i])

\* a board with three pieces of two types at least has been yielded
C1_Witness ==
    \E i \in DOMAIN emitted[1] :
        /\ Cardinality(PiecesOf(heap, emitted[1][i])) = 3
        /\ Cardinality({p[1] : p \in PlacementsOf(heap, emitted[1][i])}) >= 2

\* C2 as stated: a drained generator has yielded exactly the placements that
\* brute force finds, for every input.
C2_Claim ==
    \A s \in Solvers :
        status[s] = "done" => EmittedPlacements(s) = BruteForce(input[s])

\* C2 for the inputs that ask for a piece at least: a drained generator has
\* yielded exactly the placements that brute force finds.
CompleteWithPieces ==
    \A s \in Solvers :
        (status[s] = "done" /\ RequestedTotal(input[s].pieces) > 0)
            => EmittedPlacements(s) = BruteForce(input[s])

\* a drained run of three pieces in which the memo pruned a branch
CompleteWitness ==
    /\ status[1] = "done"
    /\ RequestedTotal(input[1].pieces) = 3
    /\ Cardinality(EmittedPlacements(1)) > 1
    /\ \E sig \in completed_set : Cardinality(sig) = 2

\* C3: no two boards yielded by one generator have the same placement set.
C3_NoDuplicates ==
    \A s \in Solvers : \A i, j \in DOMAIN emitted[s] :
        i # j => PiecesOf(heap, emitted[s][i]) # PiecesOf(heap, emitted[s][j])

\* the search stands on a complete placement it has already yielded (it went
\* down the elif branch of line 134 with no piece left)
C3_Witness ==
    \E k \in DOMAIN stack[1] :
        /\ k > 1
        /\ stack[1][k].pieces = <<>>
        /\ PiecesOf(heap, stack[1][k].board) \in
               {PiecesOf(heap, emitted[1][i]) : i \in DOMAIN emitted[1]}

\* the calls of _solutions_recursive below the first one
Depth(s) == Len(stack[s]) - 1

\* C4: a caller that keeps pulling reaches the end of the sequence, and the
\* recursion never goes deeper below the first call than there are pieces.
C4_Terminates ==
    /\ [](\A s \in Solvers :
              stack[s] # <<>> => Depth(s) <= Len(Expand(input[s].pieces)))
    /\ <>(status[1] = "done")

\* the recursion is as deep as there are pieces, three or more
C4_Witness ==
    /\ stack[1] # <<>>
    /\ Depth(1) = Len(Expand(input[1].pieces))
    /\ Depth(1) >= 3

(***************************************************************************)
(* Claims on several generators                                            *)
(***************************************************************************)
\* C5 as stated: with two generators pulled in turn, each yields, without
\* repetition, exactly the placements it yields when it runs alone (those that
\* brute force finds, by CompleteWithPieces).
C5_Claim ==
    \A s \in Solvers :
        /\ \A i, j \in DOMAIN emitted[s] :
               i # j => PiecesOf(heap, emitted[s][i]) # PiecesOf(heap, emitted[s][j])
        /\ status[s] = "done" => EmittedPlacements(s) = BruteForce(input[s])

\* C6: the drained generators of one solver object have all yielded the same
\* set of placement sets, whatever the generators before them left behind.
C6_SameSolutions ==
    \A s \in Solvers : \A i, j \in DOMAIN results[s] : results[s][i] = results[s][j]

\* three generators were made, one was dropped, two were drained and yielded
\* two solutions or more
C6_Witness ==
    /\ nruns[1] = 3
    /\ Len(results[1]) = 2
    /\ Cardinality(results[1][1]) >= 2

(***************************************************************************)
(* Claims on the Board class                                               *)
(***************************************************************************)
\* the matrix of the board the caller works on, and the value on a square
Data == StateOf(heap, held[1]).data
Value(sq) == Data[sq[1]][sq[2]]

\* every call add_piece(piece, row, col) the caller can make: <<piece, <<row, col>>>>
Calls == PieceTypes \X SquaresOf(heap, held[1])

\* what the call returns, and the squares its piece would attack (by geometry)
Returned(call) == add_piece(heap, held[1], call[1], call[2][1], call[2][2]).ret
Attacked(call) ==
    {sq \in SquaresOf(heap, held[1]) :
        RefAttacks(call[1], call[2][1], call[2][2], sq[1], sq[2])}

\* C7 as stated: on every board reached, every add_piece call whose target
\* square is occupied, or whose piece would attack a square that is occupied by
\* a piece or by an attack mark, returns false.
C7_Claim ==
    \A call \in Calls :
        (Value(call[2]) # 0 \/ \E sq \in Attacked(call) : Value(sq) # 0)
            => Returned(call) = FALSE

\* C7: on every board reached, an add_piece call returns false exactly when its
\* target square holds a piece or an attack mark, or its piece would attack a
\* square that holds a piece; an attack mark on an attacked square alone does
\* not make it return false.
C7_Amended ==
    \A call \in Calls :
        Returned(call) = FALSE
            <=> (Value(call[2]) # 0 \/ \E sq \in Attacked(call) : Value(sq) > 1)

\* add_piece has just accepted the second piece of a board, and a square is
\* attacked by both pieces: it held the first piece's mark when the second came
C7_Witness ==
    /\ last.op = "add_piece"
    /\ last.ok
    /\ Cardinality(PlacementsOf(heap, held[1])) = 2
    /\ \E p, q \in PlacementsOf(heap, held[1]) :
           /\ p # q
           /\ \E sq \in SquaresOf(heap, held[1]) :
                  /\ RefAttacks(p[1], p[2], p[3], sq[1], sq[2])
                  /\ RefAttacks(q[1], q[2], q[3], sq[1], sq[2])

\* C8: a call of add_piece that returns false leaves the matrix, the placed set
\* and the cursor of the board as they were before the call.
C8_Unchanged ==
    [][(last'.op = "add_piece" /\ ~last'.ok)
           => BoardView(heap', held[1]) = BoardView(heap, held[1])]_vars

\* add_piece has just returned false on a board that holds a piece, where a call
\* on an empty square is rejected by the loop over the attacked squares
C8_Witness ==
    /\ last.op = "add_piece"
    /\ ~last.ok
    /\ PiecesOf(heap, held[1]) # {}
    /\ \E call \in Calls : Value(call[2]) = 0 /\ Returned(call) = FALSE

\* (row, col) order
Lex(a, b) == a[1] < b[1] \/ (a[1] = b[1] /\ a[2] <= b[2])

\* the smallest square of board b with value 0, (None, None) without one
SmallestZero(H, b) ==
    LET Z == {sq \in SquaresOf(H, b) : StateOf(H, b).data[sq[1]][sq[2]] = 0}
    IN  IF Z = {} THEN <<None, None>>
        ELSE CHOOSE sq \in Z : \A o \in Z : Lex(sq, o)

\* the boards the caller holds
HeldBoards == Range(held) \ {0}

\* on every held board, next_position returns the smallest empty square or
\* (None, None), and no empty square lies before the cursor
CursorSound ==
    /\ last.op = "next_position" => last.pos = SmallestZero(heap, held[1])
    /\ \A b \in HeldBoards :
           /\ next_position(heap, b).ret = SmallestZero(heap, b)
           /\ \A sq \in SquaresOf(heap, b) :
                  (sq # BoardView(heap, b).cursor /\ Lex(sq, BoardView(heap, b).cursor))
                      => StateOf(heap, b).data[sq[1]][sq[2]] # 0

\* a call never moves the cursor of the working board back (a copy starts on
\* its original's cursor), and next_position returns a square at or after the
\* cursor it started from and leaves the cursor on it
CursorForward ==
    /\ Lex(BoardView(heap, held[1]).cursor, BoardView(heap', held'[1]).cursor)
    /\ (last'.op = "next_position" /\ last'.pos # <<None, None>>)
           => /\ Lex(BoardView(heap, held[1]).cursor, last'.pos)
              /\ BoardView(heap', held[1]).cursor = last'.pos

\* C9: after any sequence of add_piece, copy, next_position and
\* available_positions calls, next_position returns the smallest square (row,
\* then column) with value 0, or (None, None) without one; it scans forward from
\* the cursor, the cursor never decreases, no empty square lies before it.
C9_NextPosition == [](CursorSound) /\ [][CursorForward]_vars

\* next_position has just skipped occupied squares on a board with a piece and
\* returned an empty square after (0, 0)
C9_Witness ==
    /\ last.op = "next_position"
    /\ last.pos \notin {<<None, None>>, <<0, 0>>}
    /\ PiecesOf(heap, held[1]) # {}

\* C10: after b2 = b1.copy() the copy holds what the original holds, and every
\* later add_piece, next_position and available_positions call on one of the
\* two leaves the matrix, the placed set and the cursor of the other unchanged.
C10_Independent ==
    [][/\ last'.op = "copy"
           => /\ BoardView(heap', held'[1]) = BoardView(heap, held[1])
              /\ BoardView(heap', held'[2]) = BoardView(heap, held[1])
       /\ (held[2] # 0 /\ held'[2] = held[2])
           => BoardView(heap', held[2]) = BoardView(heap, held[2])]_vars

\* add_piece has just placed a piece on one board of a copy, and the other
\* board does not have it
C10_Witness ==
    /\ held[2] # 0
    /\ last.op = "add_piece"
    /\ last.ok
    /\ BoardView(heap, held[1]).state # BoardView(heap, held[2]).state
    /\ BoardView(heap, held[1]).pieces # BoardView(heap, held[2]).pieces

(***************************************************************************)
(* Claims on setup and on the search                                       *)
(***************************************************************************)
BadDimensions(in) == in.rows <= 0 \/ in.cols <= 0

\* C11: a solver given rows <= 0 or cols <= 0 ends its first step with an
\* InvalidDimensions error: no search step runs, nothing is yielded.
C11_Claim ==
    \A s \in Solvers :
        (BadDimensions(input[s]) /\ status[s] \notin {"none", "created", "closed"})
            => /\ status[s] = "InvalidDimensions"
               /\ emitted[s] = <<>>

\* C12: every call of _solutions_recursive that has no piece left to place, the
\* first call included, stands on a board that has been yielded in this run
\* (by this call or earlier in the run).
C12_Claim ==
    \A s \in Solvers :
        \A i \in DOMAIN stack[s] :
            stack[s][i].pieces = <<>>
                => PiecesOf(heap, stack[s][i].board) \in EmittedSets(s)

\* the same for the calls below the first one: a call without pieces is only
\* made on a complete placement that was yielded before
EmptyCallsBelowYielded ==
    \A s \in Solvers :
        \A i \in DOMAIN stack[s] :
            (i > 1 /\ stack[s][i].pieces = <<>>)
                => PiecesOf(heap, stack[s][i].board) \in EmittedSets(s)

\* the records of a set of placements <<piece, row, col>>
Records(P) == {piece_hash(p[1], p[2], p[3]) : p \in P}

\* the solutions brute force finds that extend a placement whose signature is in
\* the memo
MemoizedSolutions(s) ==
    {P \in BruteForce(input[s]) :
        \E Q \in SUBSET Records(P) : Signature(Q) \in completed_set}

\* C13: at every point of a run, every complete solution that extends a
\* placement whose signature is in completed_set has already been yielded, so a
\* branch dropped because its signature is in the memo loses no solution.
C13_MemoSound ==
    \A s \in Solvers :
        status[s] \in {"running", "done", "closed"}
            => \A P \in MemoizedSolutions(s) : Records(P) \in EmittedSets(s)

\* the search is about to drop a branch on the memo: the candidate is accepted,
\* pieces remain after it, its signature is in completed_set, and solutions
\* extend it
C13_Witness ==
    /\ AtCandidate(1)
    /\ TryAdd(1).ret
    /\ Len(Top(1).pieces) > 1
    /\ TrySignature(1) \in completed_set
    /\ \E P \in BruteForce(input[1]) :
           PiecesOf(TryAdd(1).heap, Top(1).next_board) \subseteq Records(P)

\* a call that has finished: every piece of its list and every square of its
\* inner loops is behind it, or its board had no free square to begin with
Explored(f) ==
    /\ f.pc = "memo"
    /\ f.positions = <<>>
    /\ \/ f.index > Len(f.pieces)
       \/ SmallestZero(heap, f.board) = <<None, None>>

\* a step that adds to completed_set is the end of a finished call, adds the
\* signature of that call's board only, and the board holds 2 to 5 pieces
MemoAfterExploring ==
    (completed_set' \ completed_set # {})
        => \E s \in Solvers :
               /\ cur = s
               /\ stack[s] # <<>>
               /\ Explored(Top(s))
               /\ completed_set' =
                      completed_set \cup {Signature(PiecesOf(heap, Top(s).board))}
               /\ Cardinality(PiecesOf(heap, Top(s).board)) > 1
               /\ Cardinality(PiecesOf(heap, Top(s).board)) <= 5

\* a step that adds to completed_set adds for a call with pieces left to place
MemoOnlyPartial ==
    (completed_set' \ completed_set # {})
        => \E s \in Solvers : cur = s /\ stack[s] # <<>> /\ Top(s).pieces # <<>>

\* a step that adds to completed_set for a call without pieces left adds a
\* placement this run has yielded
MemoCompleteYielded ==
    (completed_set' \ completed_set # {})
        => \A s \in Solvers :
               (cur = s /\ stack[s] # <<>> /\ Top(s).pieces = <<>>)
                   => PiecesOf(heap, Top(s).board) \in EmittedSets(s)

\* dropping a generator leaves completed_set as it is
DropRecordsNothing ==
    (\E s \in Solvers : status[s] # "closed" /\ status'[s] = "closed")
        => completed_set' = completed_set

\* C14 as stated: a signature enters the memo only for a partial placement
\* (pieces still remaining) of 2 to 5 pieces, only when the call on that
\* placement has finished its loops, and never when the caller drops the run.
C14_Claim ==
    [][MemoAfterExploring /\ MemoOnlyPartial /\ DropRecordsNothing]_vars

\* C14: a signature enters the memo only for a placement of 2 to 5 pieces,
\* partial or a complete one the run has already yielded and reached again,
\* only when the call on that placement has finished its loops, and never when
\* the caller drops the run.
C14_Amended ==
    [][MemoAfterExploring /\ MemoCompleteYielded /\ DropRecordsNothing]_vars

\* the memo holds the signature of a complete placement: one the run has
\* yielded, reached again through another order and entered with no piece left
C14_Witness ==
    /\ status[1] \in {"running", "done"}
    /\ \E P \in EmittedSets(1) : Signature(P) \in completed_set

\* the placed set of board b holds one record for each square with a piece
\* code, made of that code and the square, and nothing else
PlacedIsOccupied(H, b) ==
    /\ PiecesOf(H, b) =
           {piece_hash(StateOf(H, b).data[sq[1]][sq[2]], sq[1], sq[2]) :
                sq \in PieceSquares(H, b)}
    /\ Cardinality(PiecesOf(H, b)) = Cardinality(PieceSquares(H, b))

\* a square of a held board that holds a piece code keeps it
PieceCodesKept ==
    \A b \in (Range(held) \cap Range(held')) \ {0} :
        \A sq \in PieceSquares(heap, b) :
            StateOf(heap', b).data[sq[1]][sq[2]] = StateOf(heap, b).data[sq[1]][sq[2]]

\* C15: after any sequence of add_piece calls (and of the other calls) on a
\* board made by Board.new, the placed set is exactly the set of records of the
\* squares that hold a piece code, and a square that holds a piece code is never
\* overwritten, by the attack mark or by another piece code.
C15_PlacedExact ==
    /\ [](\A b \in HeldBoards : PlacedIsOccupied(heap, b))
    /\ [][PieceCodesKept]_vars

\* add_piece has just placed the third piece of a board
C15_Witness ==
    /\ last.op = "add_piece"
    /\ last.ok
    /\ Cardinality(PieceSquares(heap, held[1])) = 3

\* C16: at every search state a piece type is tried at the free squares once:
\* the piece a call is trying is of a type that comes nowhere earlier in the
\* call's list of remaining pieces, whatever the order of the input list.
C16_Claim ==
    \A s \in Solvers :
        \A k \in DOMAIN stack[s] :
            (stack[s][k].pc # "memo" /\ stack[s][k].index \in DOMAIN stack[s][k].pieces)
                => \A j \in 1..(stack[s][k].index - 1) :
                       stack[s][k].pieces[j] # stack[s][k].pieces[stack[s][k].index]

\* the same for the input lists that keep the entries of one type together
OnceWhenAdjacent ==
    \A s \in Solvers :
        (\A i, j \in DOMAIN input[s].pieces :
             (i < j /\ input[s].pieces[i][1] = input[s].pieces[j][1])
                 => \A m \in i..j : input[s].pieces[m][1] = input[s].pieces[i][1])
            => \A k \in DOMAIN stack[s] :
                   (stack[s][k].pc # "memo"
                        /\ stack[s][k].index \in DOMAIN stack[s][k].pieces)
                       => \A j \in 1..(stack[s][k].index - 1) :
                              stack[s][k].pieces[j]
                                  # stack[s][k].pieces[stack[s][k].index]

(***************************************************************************)
(* Claims on the pieces and on the placement record                        *)
(***************************************************************************)
\* C17: for every piece type and square of every board, the squares positions()
\* yields are the squares the piece attacks by geometry (King and Knight: their
\* offsets; Queen, Bishop, Rook: every square of their lines up to the edge);
\* all are inside the board and none is the piece's own square.
C17_Positions ==
    last.op = "positions"
        => /\ Range(last.list) =
                  {sq \in SquaresOf(heap, held[1]) :
                      RefAttacks(last.piece, last.pos[1], last.pos[2], sq[1], sq[2])}
           /\ \A i \in DOMAIN last.list :
                  InBoard(BoardRows(heap, held[1]), BoardCols(heap, held[1]),
                          last.list[i][1], last.list[i][2])
           /\ last.pos \notin Range(last.list)

\* positions() of a Queen inside a board of four rows and columns: runs of two
\* squares and more
C17_Witness ==
    /\ last.op = "positions"
    /\ last.piece = QueenPiece
    /\ BoardRows(heap, held[1]) = 4
    /\ BoardCols(heap, held[1]) = 4
    /\ last.pos = <<1, 1>>
    /\ Cardinality(Range(last.list)) = 11

\* the placements that differ from <<piece, row, col>> in the type, in the row
\* or in the column only
OneFieldAway(piece, row, col) ==
    ({<<t, row, col>> : t \in PieceTypes}
         \cup {<<piece, r, col>> : r \in Coords}
         \cup {<<piece, row, c>> : c \in Coords})
        \ {<<piece, row, col>>}

\* C18: for every piece type and 0 <= row, col < 64 the record is below 2^16
\* before the cast to uint16, and it is injective: the type, the row and the
\* column can be read back from it, and it differs from the record of every
\* placement with another type, row or column.
C18_Record ==
    last.op = "record"
        => /\ last.list[1] = (last.piece - 2) + 16 * last.pos[2] + 1024 * last.pos[1]
           /\ last.list[1] < 65536
           /\ Decode(last.list[1]) = <<last.piece, last.pos[1], last.pos[2]>>
           /\ \A q \in OneFieldAway(last.piece, last.pos[1], last.pos[2]) :
                  piece_hash(q[1], q[2], q[3]) # last.list[1]

\* the record of a Knight on the last row and column: all 16 bits in use
C18_Witness ==
    /\ last.op = "record"
    /\ last.piece = KnightPiece
    /\ last.pos = <<63, 63>>
    /\ last.list[1] >= 32768

\* two add_piece calls on board b, one after the other: the heap after them,
\* and whether both returned true
AddBoth(H, b, p, q) ==
    LET first  == add_piece(H, b, p[1], p[2][1], p[2][2])
        second == add_piece(first.heap, b, q[1], q[2][1], q[2][2])
    IN  [heap |-> second.heap, ok |-> first.ret /\ second.ret]

\* the matrix that a set of placements stands for on a board of this shape:
\* the piece code on the square of each placement, 1 on the other squares that
\* a placed piece attacks, 0 elsewhere
MatrixOf(P, rows, cols) ==
    [r \in 0..(rows - 1) |->
        [c \in 0..(cols - 1) |->
            IF \E p \in P : p[2] = r /\ p[3] = c
            THEN (CHOOSE p \in P : p[2] = r /\ p[3] = c)[1]
            ELSE IF \E p \in P : RefAttacks(p[1], p[2], p[3], r, c) THEN 1
            ELSE 0]]

\* C19: on every board reached, for any two placements p and q, add_piece(p)
\* then add_piece(q) both succeed exactly when add_piece(q) then add_piece(p)
\* both succeed, and then the two boards have the same matrix and placed set;
\* and the matrix of every board is the one its placed set alone determines.
C19_OrderFree ==
    /\ \A p, q \in Calls :
           LET pq == AddBoth(heap, held[1], p, q)
               qp == AddBoth(heap, held[1], q, p)
           IN  /\ pq.ok <=> qp.ok
               /\ pq.ok => /\ StateOf(pq.heap, held[1]) = StateOf(qp.heap, held[1])
                           /\ PiecesOf(pq.heap, held[1]) = PiecesOf(qp.heap, held[1])
    /\ \A b \in HeldBoards :
           StateOf(heap, b).data =
               MatrixOf(PlacementsOf(heap, b), BoardRows(heap, b), BoardCols(heap, b))

\* add_piece has just placed a piece on a board where two more placements, of
\* different types, can be made one after the other
C19_Witness ==
    /\ PiecesOf(heap, held[1]) # {}
    /\ last.op = "add_piece"
    /\ last.ok
    /\ \E p, q \in Calls :
           /\ p[1] # q[1]
           /\ AddBoth(heap, held[1], p, q).ok

\* the matrix and the placed set of board b
Content(H, b) == [state |-> StateOf(H, b).data, pieces |-> PiecesOf(H, b)]

\* a board the generator has yielded keeps its matrix and its placed set
YieldedKept ==
    \A s \in Solvers :
        \A i \in DOMAIN emitted[s] \cap DOMAIN emitted'[s] :
            emitted'[s][i] = emitted[s][i]
                => Content(heap', emitted[s][i]) = Content(heap, emitted[s][i])

\* the board of a call that goes on keeps its matrix and its placed set
ReceivedKept ==
    \A s \in Solvers :
        \A k \in DOMAIN stack[s] \cap DOMAIN stack'[s] :
            stack'[s][k].board = stack[s][k].board
                => Content(heap', stack[s][k].board) = Content(heap, stack[s][k].board)

\* C20: no step of the search changes the matrix or the placed set of a board
\* already yielded, nor of the board a call of _solutions_recursive received:
\* candidates are tried on copies.
C20_Unchanged == [][YieldedKept /\ ReceivedKept]_vars

\* the search has gone on after two yields and is two calls deep, trying
\* a candidate
C20_Witness ==
    /\ Len(emitted[1]) >= 2
    /\ Len(stack[1]) >= 2
    /\ AtCandidate(1)
    /\ TryAdd(1).ret

====
